---------------------------- MODULE Spec2Model ----------------------------
(***************************************************************************)
(* The drone route solver of src/droneviz/solver/solver.cpp: a            *)
(* label-correcting shortest-path search over states                      *)
(* (row, col, battery, altitude), followed by the reconstruction of one   *)
(* path through the parent table and the output of the result.            *)
(***************************************************************************)
EXTENDS Integers, Sequences, FiniteSets, TLC

(***************************************************************************)
(* Bounds of the enumerated inputs.                                       *)
(***************************************************************************)
MaxN == 2
MaxM == 3
MaxCells == 4
MaxH == 1
MaxB == 3
MaxK == 2
MaxS == 1

(* const ll INF = LLONG_MAX / 4; any value above every reachable time     *)
(* behaves alike, and this is the largest integer TLC represents.         *)
INF == 2147483647

VARIABLES stdin, N, M, B, K, height, recharge,
          dist, parent, pq, bestTime, bestState,
          pc, cur, path, output

inputVars == <<stdin, N, M, B, K, height, recharge>>
vars == <<stdin, N, M, B, K, height, recharge,
          dist, parent, pq, bestTime, bestState, pc, cur, path, output>>

(***************************************************************************)
(* Inputs: what the parsing of lines 23-43 leaves in N, M, B, K, height   *)
(* and recharge (station coordinates already converted to 0-indexed).     *)
(***************************************************************************)
Cells(n, m) == (0 .. n - 1) \X (0 .. m - 1)

MkInput(n, m, b, k, h, st) ==
    [N |-> n, M |-> m, B |-> b, K |-> k, height |-> h, recharge |-> st]

Grid(rows) == [i \in 0 .. Len(rows) - 1 |->
                 [j \in 0 .. Len(rows[i + 1]) - 1 |-> rows[i + 1][j + 1]]]

GenericInputs ==
    UNION { UNION { { MkInput(n, m, b, k, h, st) :
                        b \in 0 .. MaxB, k \in 0 .. MaxK,
                        h \in [0 .. n - 1 -> [0 .. m - 1 -> 0 .. MaxH]],
                        st \in { s \in SUBSET Cells(n, m) : Cardinality(s) <= MaxS } }
                    : m \in { mm \in 1 .. MaxM : n * mm <= MaxCells } }
            : n \in 1 .. MaxN }

(* N=1, M=2, B=10, K=0, heights [[0,5]], no stations. *)
ClimbScenario == MkInput(1, 2, 10, 0, Grid(<< <<0, 5>> >>), {})

(* N=M=2, B=10, K=0, all heights 0, no stations. *)
FlatScenario == MkInput(2, 2, 10, 0, Grid(<< <<0, 0>>, <<0, 0>> >>), {})

(* A station at the origin: the only route to the destination climbs to   *)
(* (0,1), returns to the origin to recharge, and sets out again.          *)
ReturnScenario == MkInput(1, 3, 3, 3, Grid(<< <<0, 1, 2>> >>), {<<0, 0>>})

(* A station at (0,1) visited twice yields a destination state that a     *)
(* shorter route through (1,0) reaches earlier.                           *)
StaleScenario == MkInput(2, 2, 5, 1, Grid(<< <<0, 0>>, <<3, 3>> >>), {<<0, 1>>})

(* Two entries of equal time whose expansions reach the same state at    *)
(* different times: the order of their pops decides which is inserted     *)
(* first.                                                                 *)
TieScenario ==
    MkInput(3, 2, 5, 3, Grid(<< <<0, 0>>, <<1, 3>>, <<1, 3>> >>), {<<0, 0>>, <<0, 1>>})

(* A single cell above ground level. *)
RooftopScenario == MkInput(1, 1, 3, 0, Grid(<< <<2>> >>), {})

(* The station coordinates of set st as tokens: 1-indexed pairs. *)
RECURSIVE StationTokens(_)
StationTokens(st) ==
    IF st = {} THEN << >>
    ELSE LET x == CHOOSE y \in st : TRUE
         IN  <<x[1] + 1, x[2] + 1>> \o StationTokens(st \ {x})

(* The token stream of section "Input": N M B K, the heights row-major,   *)
(* S, and S pairs.                                                        *)
Tokens(in) ==
    <<in.N, in.M, in.B, in.K>>
      \o [i \in 1 .. in.N * in.M |-> in.height[(i - 1) \div in.M][(i - 1) % in.M]]
      \o <<Cardinality(in.recharge)>>
      \o StationTokens(in.recharge)

Inputs == GenericInputs \cup { ClimbScenario, FlatScenario, ReturnScenario,
                               StaleScenario, TieScenario, RooftopScenario }

(***************************************************************************)
(* The program.                                                           *)
(***************************************************************************)
State(t, r, c, b, a) == [time |-> t, r |-> r, c |-> c, battery |-> b, altitude |-> a]

make_tuple(e) == <<e.r, e.c, e.battery, e.altitude>>

(* struct Cmp: the comparison handed to the priority queue. *)
CmpLatestFirst(a, b) == a.time < b.time

Cmp(a, b) == a.time > b.time

(* pq.top(): an entry that Cmp orders before no other; which one among    *)
(* entries of equal time is left to the heap.  The queue never holds two  *)
(* equal entries (an entry is pushed only when it lowers the table entry  *)
(* of its state), so a set holds it.                                      *)
TopAny(q) == q

Top(q) == { e \in q : \A f \in q : ~Cmp(e, f) }

dirs == << <<0, 1>>, <<0, -1>>, <<1, 0>>, <<-1, 0>> >>

(* Line 54. *)
startAlt == height[0][0]

(* Line 70. *)
StaleOrEqual(d, e) == make_tuple(e) \in DOMAIN d /\ d[make_tuple(e)] <= e.time

StaleEntry(d, e) == make_tuple(e) \in DOMAIN d /\ d[make_tuple(e)] < e.time

AtLastRow(e) == e.r = N - 1

(* Line 72. *)
AtDestination(e) == e.r = N - 1 /\ e.c = M - 1

BetterOrEqual(e, bt) == e.time <= bt

BetterOrLater(e, bt) == TRUE

(* Line 73. *)
Better(e, bt) == e.time < bt

MoveCostNoBattery(e, nr, nc) ==
    IF height[nr][nc] > e.altitude
      THEN [nt |-> e.time + 1 + (height[nr][nc] - e.altitude),
            nb |-> e.battery,
            newAlt |-> height[nr][nc]]
      ELSE [nt |-> e.time + 1, nb |-> e.battery, newAlt |-> e.altitude]

MoveCostFlatTime(e, nr, nc) ==
    IF height[nr][nc] > e.altitude
      THEN [nt |-> e.time + 1,
            nb |-> e.battery - 1 - (height[nr][nc] - e.altitude),
            newAlt |-> height[nr][nc]]
      ELSE [nt |-> e.time + 1, nb |-> e.battery - 1, newAlt |-> e.altitude]

MoveCostDescend(e, nr, nc) ==
    IF height[nr][nc] > e.altitude
      THEN [nt |-> e.time + 1 + (height[nr][nc] - e.altitude),
            nb |-> e.battery - 1 - (height[nr][nc] - e.altitude),
            newAlt |-> height[nr][nc]]
      ELSE [nt |-> e.time + 1, nb |-> e.battery - 1, newAlt |-> height[nr][nc]]

(* Lines 88-98: time, battery and altitude after the move of e to (nr, nc). *)
MoveCost(e, nr, nc) ==
    IF height[nr][nc] > e.altitude
      THEN [nt |-> e.time + 1 + (height[nr][nc] - e.altitude),
            nb |-> e.battery - 1 - (height[nr][nc] - e.altitude),
            newAlt |-> height[nr][nc]]
      ELSE [nt |-> e.time + 1, nb |-> e.battery - 1, newAlt |-> e.altitude]

Min2(a, b) == IF a < b THEN a ELSE b

RechargedFull(nb, nr, nc) ==
    IF <<nr, nc>> \in recharge THEN B ELSE nb

RechargedUncapped(nb, nr, nc) ==
    IF <<nr, nc>> \in recharge THEN nb + K ELSE nb

(* Lines 104-107. *)
Recharged(nb, nr, nc) ==
    IF <<nr, nc>> \in recharge THEN Min2(B, nb + K) ELSE nb

AffordableLoose(nb) == ~(nb < -1)

AffordableStrict(nb) == ~(nb <= 0)

(* Line 102: the move is generated only when this holds of the battery    *)
(* left after the move's cost, before any recharge.                       *)
Affordable(nb) == ~(nb < 0)

ImprovesFirstOnly(d, nkey, nt) == nkey \notin DOMAIN d

(* Line 110. *)
Improves(d, nkey, nt) == nkey \notin DOMAIN d \/ d[nkey] > nt

(* The tables of the search: dist, parent, pq, bestTime, bestState. *)
Tables == [dist |-> dist, parent |-> parent, pq |-> pq,
           bestTime |-> bestTime, bestState |-> bestState]

(* One iteration of the loop over dirs (lines 80-115) on the tables st.   *)
RelaxRechargeFirst(st, e, d) ==
    LET nr == e.r + d[1]
        nc == e.c + d[2]
    IN  IF nr < 0 \/ nr >= N \/ nc < 0 \/ nc >= M THEN st
        ELSE LET mv == MoveCost(e, nr, nc)
                 nb == Recharged(mv.nb, nr, nc)
                 nkey == <<nr, nc, nb, mv.newAlt>>
             IN  IF ~Affordable(nb) THEN st
                 ELSE IF Improves(st.dist, nkey, mv.nt)
                        THEN [st EXCEPT
                                !.dist = (nkey :> mv.nt) @@ @,
                                !.parent = (nkey :> make_tuple(e)) @@ @,
                                !.pq = @ \cup {State(mv.nt, nr, nc, nb, mv.newAlt)}]
                        ELSE st

Relax(st, e, d) ==
    LET nr == e.r + d[1]
        nc == e.c + d[2]
    IN  IF nr < 0 \/ nr >= N \/ nc < 0 \/ nc >= M THEN st
        ELSE LET mv == MoveCost(e, nr, nc)
             IN  IF ~Affordable(mv.nb) THEN st
                 ELSE LET nb == Recharged(mv.nb, nr, nc)
                          nkey == <<nr, nc, nb, mv.newAlt>>
                      IN  IF Improves(st.dist, nkey, mv.nt)
                            THEN [st EXCEPT
                                    !.dist = (nkey :> mv.nt) @@ @,
                                    !.parent = (nkey :> make_tuple(e)) @@ @,
                                    !.pq = @ \cup {State(mv.nt, nr, nc, nb, mv.newAlt)}]
                            ELSE st

(* Lines 80-115: the loop over dirs, in their order. *)
RECURSIVE Expand(_, _, _)
Expand(st, e, i) ==
    IF i > Len(dirs) THEN st ELSE Expand(Relax(st, e, dirs[i]), e, i + 1)

(* Lines 66-115: one iteration of the search loop on the tables st, e     *)
(* being the entry that pq.top() returned.                                *)
IterationThroughDestination(st, e) ==
    LET popped == [st EXCEPT !.pq = @ \ {e}]
    IN  IF StaleEntry(popped.dist, e) THEN popped
        ELSE Expand(IF AtDestination(e) /\ Better(e, popped.bestTime)
                      THEN [popped EXCEPT !.bestTime = e.time,
                                          !.bestState = make_tuple(e)]
                      ELSE popped,
                    e, 1)

IterationNoPop(st, e) ==
    IF StaleEntry(st.dist, e) THEN st
    ELSE IF AtDestination(e)
           THEN IF Better(e, st.bestTime)
                  THEN [st EXCEPT !.bestTime = e.time,
                                  !.bestState = make_tuple(e)]
                  ELSE st
           ELSE Expand(st, e, 1)

Iteration(st, e) ==
    LET popped == [st EXCEPT !.pq = @ \ {e}]
    IN  IF StaleEntry(popped.dist, e) THEN popped
        ELSE IF AtDestination(e)
               THEN IF Better(e, popped.bestTime)
                      THEN [popped EXCEPT !.bestTime = e.time,
                                          !.bestState = make_tuple(e)]
                      ELSE popped
               ELSE Expand(popped, e, 1)

InitialTablesTimeZero ==
    [dist |-> (<<0, 0, B, startAlt>> :> 0),
     parent |-> [k \in {} |-> <<0, 0, 0, 0>>],
     pq |-> { State(0, 0, 0, B, startAlt) },
     bestTime |-> INF,
     bestState |-> <<0, 0, 0, 0>>]

(* Lines 45-63: the tables before the first iteration. *)
InitialTables ==
    [dist |-> (<<0, 0, B, startAlt>> :> startAlt),
     parent |-> [k \in {} |-> <<0, 0, 0, 0>>],
     pq |-> { State(startAlt, 0, 0, B, startAlt) },
     bestTime |-> INF,
     bestState |-> <<0, 0, 0, 0>>]

Init ==
    /\ \E in \in Inputs :
          /\ N = in.N /\ M = in.M /\ B = in.B /\ K = in.K
          /\ height = in.height /\ recharge = in.recharge
          /\ stdin = Tokens(in)
    /\ dist = InitialTables.dist
    /\ parent = InitialTables.parent
    /\ pq = InitialTables.pq
    /\ bestTime = InitialTables.bestTime
    /\ bestState = InitialTables.bestState
    /\ pc = "search"
    /\ cur = <<0, 0, 0, 0>>
    /\ path = << >>
    /\ output = << >>

SearchStep(e) ==
    LET st == Iteration(Tables, e)
    IN  /\ dist' = st.dist
        /\ parent' = st.parent
        /\ pq' = st.pq
        /\ bestTime' = st.bestTime
        /\ bestState' = st.bestState

(* Lines 66-70: the popped entry is one the table has improved on. *)
PopStale ==
    /\ pc = "search"
    /\ \E e \in Top(pq) : StaleEntry(dist, e) /\ SearchStep(e)
    /\ UNCHANGED <<inputVars, pc, cur, path, output>>

(* Lines 66-78: the popped entry is at the destination cell. *)
PopDestination ==
    /\ pc = "search"
    /\ \E e \in Top(pq) : ~StaleEntry(dist, e) /\ AtDestination(e) /\ SearchStep(e)
    /\ UNCHANGED <<inputVars, pc, cur, path, output>>

(* Lines 66-115: the popped entry is expanded. *)
PopExpand ==
    /\ pc = "search"
    /\ \E e \in Top(pq) : ~StaleEntry(dist, e) /\ ~AtDestination(e) /\ SearchStep(e)
    /\ UNCHANGED <<inputVars, pc, cur, path, output>>

(* Lines 118-121. *)
ReportUnreachable ==
    /\ pc = "search" /\ pq = {}
    /\ bestTime = INF
    /\ output' = << [time |-> -1, path |-> << >>] >>
    /\ pc' = "done"
    /\ UNCHANGED <<inputVars, dist, parent, pq, bestTime, bestState, cur, path>>

(* Lines 124-125. *)
BeginReconstruct ==
    /\ pc = "search" /\ pq = {}
    /\ bestTime # INF
    /\ cur' = bestState
    /\ path' = << >>
    /\ pc' = "reconstruct"
    /\ UNCHANGED <<inputVars, dist, parent, pq, bestTime, bestState, output>>

PathRecord(k, t) ==
    [row |-> k[1], col |-> k[2], battery |-> k[3], altitude |-> k[4], time |-> t]

(* The loop ends at a record of cell (0,0) (line 129). *)
AtOrigin(k) == k[1] = 0 /\ k[2] = 0

(* One iteration of lines 126-131; operator[] of a map inserts a          *)
(* value-initialised entry for a key that is absent.                      *)
ReconstructStep ==
    /\ pc = "reconstruct"
    /\ LET d == IF cur \in DOMAIN dist THEN dist ELSE (cur :> 0) @@ dist
       IN  /\ dist' = d
           /\ path' = Append(path, PathRecord(cur, d[cur]))
           /\ IF AtOrigin(cur)
                THEN pc' = "print" /\ UNCHANGED <<cur, parent>>
                ELSE /\ parent' = IF cur \in DOMAIN parent THEN parent
                                  ELSE (cur :> <<0, 0, 0, 0>>) @@ parent
                     /\ cur' = parent'[cur]
                     /\ pc' = pc
    /\ UNCHANGED <<inputVars, pq, bestTime, bestState, output>>

Reverse(s) == [i \in 1 .. Len(s) |-> s[Len(s) + 1 - i]]

(* Lines 132-156. *)
PrintResult ==
    /\ pc = "print"
    /\ output' = << [time |-> bestTime, path |-> Reverse(path)] >>
    /\ pc' = "done"
    /\ UNCHANGED <<inputVars, dist, parent, pq, bestTime, bestState, cur, path>>

Next ==
    \/ PopStale
    \/ PopDestination
    \/ PopExpand
    \/ ReportUnreachable
    \/ BeginReconstruct
    \/ ReconstructStep
    \/ PrintResult

Spec == Init /\ [][Next]_vars

(* main is one sequential thread: a loop iteration that can run does run, *)
(* so the next step of the program is taken whenever there is one.        *)
FairSpec == Spec /\ WF_vars(Next)

(***************************************************************************)
(* Input parsing (lines 23-43), from a token stream that may end early.   *)
(***************************************************************************)
Prefixes(s) == { SubSeq(s, 1, j) : j \in 0 .. Len(s) }

InputStreams ==
    UNION { Prefixes(Tokens(in)) : in \in GenericInputs \cup { FlatScenario, StaleScenario } }

(* What an extraction that fails leaves in an int that was never          *)
(* initialised (S, r, c of lines 36-41): any value; these are the ones    *)
(* that make a difference on the grids of the bounds.                     *)
JunkCounts == 0 .. MaxS
JunkCoords == 1 .. MaxM

(* Lines 29-34: a height whose token is missing keeps the 0 the vector    *)
(* was built with.                                                        *)
ParsedHeight(s, n, m) ==
    [i \in 0 .. n - 1 |->
       [j \in 0 .. m - 1 |->
          IF 4 + i * m + j + 1 <= Len(s) THEN s[4 + i * m + j + 1] ELSE 0]]

(* Lines 38-43: S pairs, each coordinate the token read or, the stream    *)
(* having ended, the value junk gives it.                                 *)
ParsedStations(s, first, count, junk) ==
    { << (IF first + 2 * i - 1 <= Len(s) THEN s[first + 2 * i - 1] ELSE junk[2 * i - 1]) - 1,
         (IF first + 2 * i <= Len(s) THEN s[first + 2 * i] ELSE junk[2 * i]) - 1 >> :
      i \in 1 .. count }

InitParse ==
    /\ stdin \in InputStreams
    /\ N = 0 /\ M = 0 /\ B = 0 /\ K = 0
    /\ height = [i \in {} |-> [j \in {} |-> 0]]
    /\ recharge = {}
    /\ dist = [k \in {} |-> 0]
    /\ parent = [k \in {} |-> <<0, 0, 0, 0>>]
    /\ pq = {}
    /\ bestTime = INF
    /\ bestState = <<0, 0, 0, 0>>
    /\ pc = "parse"
    /\ cur = <<0, 0, 0, 0>>
    /\ path = << >>
    /\ output = << >>

(* Lines 25-27: the header cannot be read; the program returns. *)
ReadHeaderFails ==
    /\ pc = "parse"
    /\ Len(stdin) < 4
    /\ pc' = "done"
    /\ UNCHANGED <<inputVars, dist, parent, pq, bestTime, bestState, cur, path, output>>

(* Lines 25-63: the header is read, then heights, S and the stations,     *)
(* none of these reads being checked; the tables are set up.              *)
ReadInput ==
    /\ pc = "parse"
    /\ Len(stdin) >= 4
    /\ N' = stdin[1] /\ M' = stdin[2] /\ B' = stdin[3] /\ K' = stdin[4]
    /\ height' = ParsedHeight(stdin, N', M')
    /\ \E S \in (IF 4 + N' * M' + 1 <= Len(stdin)
                    THEN { stdin[4 + N' * M' + 1] } ELSE JunkCounts) :
          \E junk \in [1 .. 2 * S -> JunkCoords] :
             recharge' = ParsedStations(stdin, 4 + N' * M' + 2, S, junk)
    /\ dist' = InitialTables.dist'
    /\ parent' = InitialTables.parent'
    /\ pq' = InitialTables.pq'
    /\ bestTime' = InitialTables.bestTime'
    /\ bestState' = InitialTables.bestState'
    /\ pc' = "search"
    /\ UNCHANGED <<stdin, cur, path, output>>

ParseNext == ReadHeaderFails \/ ReadInput \/ Next

ParseSpec == InitParse /\ [][ParseNext]_vars

(***************************************************************************)
(* The claims.  The valid moves, their costs and the states they lead to  *)
(* are restated here from the cost model's wording, apart from the        *)
(* operators of the program above.                                        *)
(***************************************************************************)
Abs(x) == IF x < 0 THEN -x ELSE x
Max2(a, b) == IF a > b THEN a ELSE b
MinOf(S) == CHOOSE x \in S : \A y \in S : x <= y

Adjacent(r1, c1, r2, c2) == Abs(r1 - r2) + Abs(c1 - c2) = 1

ClimbDelta(alt, r, c) == Max2(0, height[r][c] - alt)

(* The states one valid move away from state k = <<r, c, battery, altitude>>, *)
(* each with the cost of the move.                                        *)
ValidMoves(k) ==
    { <<<<cell[1], cell[2],
          IF cell \in recharge
            THEN Min2(B, k[3] - (1 + ClimbDelta(k[4], cell[1], cell[2])) + K)
            ELSE k[3] - (1 + ClimbDelta(k[4], cell[1], cell[2])),
          Max2(k[4], height[cell[1]][cell[2]])>>,
        1 + ClimbDelta(k[4], cell[1], cell[2])>> :
      cell \in { x \in Cells(N, M) :
                   /\ Adjacent(k[1], k[2], x[1], x[2])
                   /\ k[3] - (1 + ClimbDelta(k[4], x[1], x[2])) >= 0 } }

StartState == <<0, 0, B, height[0][0]>>

(* One round of relaxation of every valid move out of every state of D.   *)
RelaxAll(D) ==
    LET cands == UNION { { <<mv[1], D[k] + mv[2]>> : mv \in ValidMoves(k) } : k \in DOMAIN D }
        keys == DOMAIN D \cup { x[1] : x \in cands }
    IN  [k \in keys |->
           MinOf({ x[2] : x \in { y \in cands : y[1] = k } }
                 \cup (IF k \in DOMAIN D THEN {D[k]} ELSE {}))]

RECURSIVE Settle(_)
Settle(D) == LET D2 == RelaxAll(D) IN IF D2 = D THEN D ELSE Settle(D2)

(* The least sum of move costs of a sequence of valid moves from the      *)
(* start state to each state such a sequence reaches.                     *)
MoveCostTable == Settle(StartState :> 0)

DestinationStates(D) == { k \in DOMAIN D : k[1] = N - 1 /\ k[2] = M - 1 }

Done == pc = "done"
PathPrinted == pc = "done" /\ output[1].time # -1
Printed == output[1].path

C3_UnreachableIff ==
    Done =>
      LET reachable == DestinationStates(MoveCostTable) # {}
      IN  /\ (output[1].time = -1) <=> ~reachable
          /\ output[1].time = -1 => output[1].path = << >>
          /\ reachable => output[1].time >= 0 /\ Len(output[1].path) >= 1

C3_Witness ==
    /\ Done /\ output[1].time = -1
    /\ B > 0
    /\ Cardinality(DOMAIN dist) >= 3

(* C4: the first record of an output path is the initial state and the    *)
(* last is the winning destination state.                                 *)
C4_PathEndpoints ==
    PathPrinted =>
      /\ Printed[1].row = 0 /\ Printed[1].col = 0
      /\ Printed[1].battery = B /\ Printed[1].altitude = height[0][0]
      /\ Printed[Len(Printed)].row = bestState[1]
      /\ Printed[Len(Printed)].col = bestState[2]
      /\ Printed[Len(Printed)].battery = bestState[3]
      /\ Printed[Len(Printed)].altitude = bestState[4]

(* C5: consecutive records of an output path are at 4-adjacent cells,     *)
(* every record is inside the grid, and the last is at (N-1, M-1).        *)
C5_PathUnitSteps ==
    PathPrinted =>
      /\ Len(Printed) >= 1
      /\ \A i \in 1 .. Len(Printed) :
            Printed[i].row \in 0 .. N - 1 /\ Printed[i].col \in 0 .. M - 1
      /\ \A i \in 1 .. Len(Printed) - 1 :
            Adjacent(Printed[i].row, Printed[i].col,
                     Printed[i + 1].row, Printed[i + 1].col)
      /\ Printed[Len(Printed)].row = N - 1
      /\ Printed[Len(Printed)].col = M - 1

C5_Witness ==
    /\ PathPrinted /\ N = 2 /\ M = 2
    /\ Len(Printed) = 3
    /\ Printed[2].row = 1

(* C6: along an output path each record's time exceeds its predecessor's  *)
(* by 1 plus the climb delta, its altitude is the larger of the           *)
(* predecessor's altitude and the cell's height, off a station its        *)
(* battery is the predecessor's less that cost, and the last record's     *)
(* time is the reported time; on N=1, M=2, B=10, K=0, heights [[0,5]],    *)
(* no stations: time 6, final battery 4, final altitude 5.                *)
C6_PathCosts ==
    PathPrinted =>
      /\ \A i \in 1 .. Len(Printed) - 1 :
            LET s == Printed[i]
                t == Printed[i + 1]
            IN  /\ t.time - s.time = 1 + Max2(0, height[t.row][t.col] - s.altitude)
                /\ t.altitude = Max2(s.altitude, height[t.row][t.col])
                /\ <<t.row, t.col>> \notin recharge
                     => t.battery = s.battery - (t.time - s.time)
      /\ Printed[Len(Printed)].time = output[1].time
      /\ (N = 1 /\ M = 2 /\ B = 10 /\ K = 0 /\ height[0][0] = 0
            /\ height[0][1] = 5 /\ recharge = {})
           => /\ output[1].time = 6
              /\ Printed[Len(Printed)].battery = 4
              /\ Printed[Len(Printed)].altitude = 5

C6_Witness ==
    /\ PathPrinted
    /\ N = 1 /\ M = 2 /\ B = 10 /\ K = 0 /\ height[0][1] = 5 /\ recharge = {}
    /\ Len(Printed) = 2

(* C7: a path step that lands on a recharge station records the battery   *)
(* min(B, b + K), b being the predecessor's battery less the move's cost; *)
(* the same holds of every state in the distance table with respect to    *)
(* the state it was inserted from.                                        *)
C7_RechargeOnArrival ==
    /\ PathPrinted =>
         \A i \in 1 .. Len(Printed) - 1 :
            LET s == Printed[i]
                t == Printed[i + 1]
            IN  <<t.row, t.col>> \in recharge =>
                  t.battery = Min2(B, s.battery - (1 + ClimbDelta(s.altitude, t.row, t.col)) + K)
    /\ \A k \in DOMAIN parent :
          <<k[1], k[2]>> \in recharge =>
             k[3] = Min2(B, parent[k][3] - (1 + ClimbDelta(parent[k][4], k[1], k[2])) + K)

C7_Witness ==
    /\ PathPrinted
    /\ \E i \in 1 .. Len(Printed) - 1 :
          /\ <<Printed[i + 1].row, Printed[i + 1].col>> \in recharge
          /\ Printed[i + 1].battery = B
          /\ Printed[i].battery - (1 + ClimbDelta(Printed[i].altitude,
                 Printed[i + 1].row, Printed[i + 1].col)) + K > B
    /\ \E k \in DOMAIN parent :
          <<k[1], k[2]>> \in recharge /\ k[3] > parent[k][3] /\ k[3] < B

(* C8: every queue entry, every state of the distance table and every     *)
(* record of the output path has 0 <= battery <= B.                       *)
C8_BatteryInRange ==
    /\ \A e \in pq : 0 <= e.battery /\ e.battery <= B
    /\ \A k \in DOMAIN dist : 0 <= k[3] /\ k[3] <= B
    /\ PathPrinted => \A i \in 1 .. Len(Printed) :
                         0 <= Printed[i].battery /\ Printed[i].battery <= B

C8_Witness ==
    /\ PathPrinted
    /\ \E i \in 2 .. Len(Printed) : Printed[i].battery = 0
    /\ \E i \in 2 .. Len(Printed) :
          Printed[i].battery = B /\ <<Printed[i].row, Printed[i].col>> \in recharge

(* C9: altitude never decreases along an output path; every state the     *)
(* search generated is at least as high as the state it was expanded      *)
(* from and as the cell it is in.                                         *)
C9_AltitudeMonotone ==
    /\ PathPrinted => \A i \in 1 .. Len(Printed) - 1 :
                         Printed[i + 1].altitude >= Printed[i].altitude
    /\ \A k \in DOMAIN parent :
          k[4] >= parent[k][4] /\ k[4] >= height[k[1]][k[2]]

C9_Witness ==
    /\ PathPrinted
    /\ \E i \in 1 .. Len(Printed) - 1 :
          Printed[i + 1].altitude > Printed[i].altitude
    /\ \E i \in 1 .. Len(Printed) :
          Printed[i].altitude > height[Printed[i].row][Printed[i].col]

(* The search run from the initial tables to an empty queue with one     *)
(* fixed way of breaking ties.                                            *)
RECURSIVE RunFrom(_)
RunFrom(st) ==
    IF st.pq = {} THEN st
    ELSE RunFrom(Iteration(st, CHOOSE e \in Top(st.pq) : TRUE))

ReportedTime(bt) == IF bt = INF THEN -1 ELSE bt

(* C10: whatever the order in which entries of equal time are popped,     *)
(* the reported time (or -1) is the one that the run with the fixed       *)
(* tie-break reports on the same input.                                   *)
C10_TimeDeterministic ==
    Done => output[1].time = ReportedTime(RunFrom(InitialTables).bestTime)

C10_Witness ==
    /\ PathPrinted
    /\ LET ref == RunFrom(InitialTables)
       IN  bestState # ref.bestState /\ bestTime = ref.bestTime

(* C11: with B = 0 on a grid of more than one cell no move is generated   *)
(* (the tables hold the initial state alone) and the output is -1,        *)
(* whatever K and the recharge set are.                                   *)
C11_NoBatteryNoMove ==
    (B = 0 /\ N * M > 1) =>
      /\ DOMAIN dist = { StartState }
      /\ DOMAIN parent = {}
      /\ pq \subseteq { State(height[0][0], 0, 0, 0, height[0][0]) }
      /\ Done => output[1] = [time |-> -1, path |-> << >>]

C11_Witness ==
    /\ Done /\ B = 0 /\ N = 2 /\ M = 1
    /\ K > 0 /\ recharge = { <<1, 0>> }
    /\ output[1].time = -1

(* C12: on an all-zero grid without stations and with                     *)
(* B >= (N-1)+(M-1), the reported time is (N-1)+(M-1) and the path has    *)
(* (N-1)+(M-1)+1 records with times 0, 1, 2, ..., batteries B, B-1, ...   *)
(* and altitudes 0; N=M=2, B=10, K=0 gives time 2 and batteries 10, 9, 8. *)
C12_FlatGrid ==
    (Done /\ recharge = {} /\ B >= (N - 1) + (M - 1)
          /\ \A cell \in Cells(N, M) : height[cell[1]][cell[2]] = 0) =>
      /\ output[1].time = (N - 1) + (M - 1)
      /\ Len(Printed) = (N - 1) + (M - 1) + 1
      /\ \A i \in 1 .. Len(Printed) :
            /\ Printed[i].time = i - 1
            /\ Printed[i].battery = B - (i - 1)
            /\ Printed[i].altitude = 0
      /\ (N = 2 /\ M = 2 /\ B = 10 /\ K = 0) =>
            /\ output[1].time = 2
            /\ <<Printed[1].battery, Printed[2].battery, Printed[3].battery>> = <<10, 9, 8>>

C12_Witness ==
    /\ PathPrinted /\ N = 2 /\ M = 2 /\ B = 10 /\ K = 0 /\ recharge = {}
    /\ \A cell \in Cells(N, M) : height[cell[1]][cell[2]] = 0
    /\ Len(Printed) = 3

(* The number of tokens the input format asks of a stream that starts as *)
(* s does: 4, then N*M heights, then S, then 2*S coordinates.             *)
RequiredTokens(s) ==
    IF Len(s) < 4 THEN 4
    ELSE IF Len(s) < 4 + s[1] * s[2] + 1 THEN 4 + s[1] * s[2] + 1
    ELSE 4 + s[1] * s[2] + 1 + 2 * s[4 + s[1] * s[2] + 1]

(* C13: an input of fewer tokens than required makes the program exit     *)
(* without any output.                                                    *)
C13_ShortInputNoOutput ==
    (Done /\ Len(stdin) < RequiredTokens(stdin)) => Len(output) = 0

(* The keys on the parent chain of k, k included. *)
RECURSIVE ChainFrom(_, _)
ChainFrom(k, fuel) ==
    IF k \notin DOMAIN parent \/ fuel = 0 THEN {k}
    ELSE {k} \cup ChainFrom(parent[k], fuel - 1)

Chain(k) == ChainFrom(k, Cardinality(DOMAIN parent))

(* The entry that a step of the search loop popped. *)
PoppedEntry == CHOOSE e \in pq : e \notin pq'

PopsFresh == pc = "search" /\ pq # {} /\ (\E e \in pq : e \notin pq')
                /\ dist[make_tuple(PoppedEntry)] = PoppedEntry.time

(* C14: the first destination entry popped with the time of its table     *)
(* entry sets bestTime and bestState; once set they are never assigned    *)
(* again, and the distance and parent entries of the states on the parent *)
(* chain of bestState never change; the output is that time and ends at   *)
(* that state.                                                            *)
C14_FirstDestinationPopIsFinal ==
    /\ [][ (bestTime = INF /\ PopsFresh
              /\ PoppedEntry.r = N - 1 /\ PoppedEntry.c = M - 1)
           => /\ bestTime' = PoppedEntry.time
              /\ bestState' = make_tuple(PoppedEntry) ]_vars
    /\ [][ bestTime # INF
           => /\ bestTime' = bestTime
              /\ bestState' = bestState
              /\ \A k \in Chain(bestState) :
                    /\ k \in DOMAIN dist' /\ dist'[k] = dist[k]
                    /\ k \in DOMAIN parent
                         => k \in DOMAIN parent' /\ parent'[k] = parent[k] ]_vars
    /\ [](PathPrinted
           => /\ output[1].time = bestTime
              /\ Printed[Len(Printed)] =
                   [row |-> bestState[1], col |-> bestState[2],
                    battery |-> bestState[3], altitude |-> bestState[4],
                    time |-> bestTime])

C14_Witness ==
    /\ pc = "search" /\ bestTime # INF
    /\ \E e \in pq :
          /\ ~(e.r = N - 1 /\ e.c = M - 1)
          /\ dist[make_tuple(e)] = e.time
          /\ \E mv \in ValidMoves(make_tuple(e)) : mv[1] \notin DOMAIN dist
    /\ \E e \in pq : e.r = N - 1 /\ e.c = M - 1 /\ dist[make_tuple(e)] = e.time

(* A state is finalized once the queue entry that carries the time of its *)
(* table entry has been popped: every improvement of dist[k] pushes the   *)
(* entry (dist[k], k), and only a pop removes it.                         *)
Finalized(k) ==
    /\ k \in DOMAIN dist
    /\ State(dist[k], k[1], k[2], k[3], k[4]) \notin pq

(* C15: no key is ever removed from the distance table; an entry changes  *)
(* only by strictly decreasing, its parent only together with such a      *)
(* decrease; the distance and parent of a finalized state never change.   *)
C15_FinalizedImmutable ==
    [][ /\ DOMAIN dist \subseteq DOMAIN dist'
        /\ DOMAIN parent \subseteq DOMAIN parent'
        /\ \A k \in DOMAIN dist :
              /\ dist'[k] <= dist[k]
              /\ (k \in DOMAIN parent /\ parent'[k] # parent[k])
                    => dist'[k] < dist[k]
              /\ (k \notin DOMAIN parent /\ k \in DOMAIN parent')
                    => dist'[k] < dist[k]
              /\ Finalized(k)
                    => /\ dist'[k] = dist[k]
                       /\ k \in DOMAIN parent => parent'[k] = parent[k] ]_vars

C15_Witness ==
    /\ pc = "search"
    /\ \E k \in DOMAIN parent : Finalized(k) /\ k # StartState
    /\ \E e \in pq : dist[make_tuple(e)] < e.time
    /\ \E e \in pq : dist[make_tuple(e)] = e.time

(* The moves out of state k that the battery cannot pay for but that a    *)
(* recharge at the target, counted first, would make affordable.          *)
RescuedByStation(k) ==
    { t \in recharge :
        /\ Adjacent(k[1], k[2], t[1], t[2])
        /\ 1 + ClimbDelta(k[4], t[1], t[2]) > k[3]
        /\ 1 + ClimbDelta(k[4], t[1], t[2]) <= k[3] + K }

(* C16: every move that was generated cost no more than the battery of    *)
(* the state it left, and no state was generated from a move that costs   *)
(* more, a recharge station at the target included.                       *)
C16_NoMoveBeyondBattery ==
    \A k \in DOMAIN parent :
        /\ parent[k][3] >= 1 + ClimbDelta(parent[k][4], k[1], k[2])
        /\ <<k[1], k[2]>> \notin RescuedByStation(parent[k])

C16_Witness ==
    /\ Done
    /\ \E p \in DOMAIN dist :
          /\ Finalized(p)
          /\ ~(p[1] = N - 1 /\ p[2] = M - 1)
          /\ RescuedByStation(p) # {}
          /\ \A k \in DOMAIN parent :
                parent[k] = p => <<k[1], k[2]>> \notin RescuedByStation(p)

(* C17: a popped entry whose time exceeds the table entry of its state     *)
(* changes nothing but the queue, which loses that entry only; every      *)
(* other popped entry carries exactly the table time and is accepted (at  *)
(* the destination) or expanded (elsewhere: every valid move is relaxed). *)
C17_StalePopFrame ==
    [][ (pc = "search" /\ \E e \in pq : e \notin pq')
        => LET e == PoppedEntry
               k == make_tuple(e)
           IN  IF dist[k] < e.time
                 THEN /\ dist' = dist
                      /\ parent' = parent
                      /\ bestTime' = bestTime
                      /\ bestState' = bestState
                      /\ pq' = pq \ {e}
                 ELSE /\ dist[k] = e.time
                      /\ (e.r = N - 1 /\ e.c = M - 1)
                            => /\ e.time < bestTime
                                  => bestTime' = e.time /\ bestState' = k
                               /\ dist' = dist /\ parent' = parent
                      /\ ~(e.r = N - 1 /\ e.c = M - 1)
                            => /\ \A mv \in ValidMoves(k) :
                                     /\ mv[1] \in DOMAIN dist'
                                     /\ dist'[mv[1]] <= e.time + mv[2]
                               /\ bestTime' = bestTime ]_vars

(* A superseded entry is alone at the head of the queue, with live        *)
(* entries behind it and a destination already accepted or not.           *)
C17_Witness ==
    /\ pc = "search"
    /\ \E e \in pq :
          /\ dist[make_tuple(e)] < e.time
          /\ \A f \in pq \ {e} : f.time > e.time
          /\ \E f \in pq : dist[make_tuple(f)] = f.time
          /\ DOMAIN parent # {}

(* C18: the search loop eventually empties the queue and is left; the     *)
(* reconstruction loop eventually ends with a record at cell (0,0); the   *)
(* program eventually exits.                                              *)
C18_Terminates ==
    /\ (pc = "search") ~> (pc # "search" /\ pq = {})
    /\ (pc = "reconstruct")
          ~> (/\ pc = "print"
              /\ path # << >>
              /\ path[Len(path)].row = 0
              /\ path[Len(path)].col = 0)
    /\ <>(pc = "done")

(* The run has ended on an input with stations where the search went      *)
(* round a cycle of cells: a state whose parent chain holds another       *)
(* state of its own cell, with less battery than it.                      *)
C18_Witness ==
    /\ Done
    /\ PathPrinted
    /\ recharge # {}
    /\ \E k \in DOMAIN parent :
          \E a \in Chain(k) \ {k} :
              a[1] = k[1] /\ a[2] = k[2] /\ a[3] < k[3]

(* C19: every state of the distance table but the initial one has a       *)
(* parent; the parent is in the distance table, at a 4-adjacent cell, and *)
(* its time plus the cost of the move is the state's time, so times       *)
(* strictly grow along parent links; the initial state has no parent.     *)
C19_ParentWellFormed ==
    /\ StartState \in DOMAIN dist
    /\ StartState \notin DOMAIN parent
    /\ \A k \in DOMAIN dist \ { StartState } :
          /\ k \in DOMAIN parent
          /\ parent[k] \in DOMAIN dist
          /\ Adjacent(parent[k][1], parent[k][2], k[1], k[2])
          /\ dist[parent[k]] + 1 + ClimbDelta(parent[k][4], k[1], k[2]) = dist[k]
          /\ dist[parent[k]] < dist[k]

(* The search is under way, a chain has at least two links, and an entry  *)
(* has been improved (its older queue entry is still waiting).            *)
C19_Witness ==
    /\ pc = "search"
    /\ \E k \in DOMAIN parent :
          parent[k] \in DOMAIN parent /\ parent[parent[k]] \in DOMAIN dist
    /\ \E e \in pq : dist[make_tuple(e)] < e.time

(* C20: an entry popped with the time of its table entry is no earlier    *)
(* than any state finalized before it; a finalized state stays finalized  *)
(* (it is never popped live again, so it is expanded at most once); no    *)
(* state at the destination cell is ever a parent, and popping one adds   *)
(* nothing to the tables or the queue; the destination cell is in a       *)
(* printed path exactly once, as its last record.                         *)
C20_SearchOrder ==
    /\ [][ PopsFresh
           => \A k \in DOMAIN dist : Finalized(k) => dist[k] <= PoppedEntry.time ]_vars
    /\ [][ \A k \in DOMAIN dist : Finalized(k) => Finalized(k)' ]_vars
    /\ [][ (PopsFresh /\ PoppedEntry.r = N - 1 /\ PoppedEntry.c = M - 1)
           => /\ dist' = dist
              /\ parent' = parent
              /\ pq' = pq \ { PoppedEntry } ]_vars
    /\ [](\A k \in DOMAIN parent :
             ~(parent[k][1] = N - 1 /\ parent[k][2] = M - 1))
    /\ [](PathPrinted
           => \A i \in 1 .. Len(Printed) :
                 (Printed[i].row = N - 1 /\ Printed[i].col = M - 1)
                    <=> i = Len(Printed))

(* A path of several records has been printed although a destination     *)
(* state holding battery for a further move was reached, and more than    *)
(* one destination state was popped.                                      *)
C20_Witness ==
    /\ PathPrinted
    /\ Len(Printed) >= 3
    /\ \E k \in DOMAIN dist :
          /\ k[1] = N - 1 /\ k[2] = M - 1
          /\ ValidMoves(k) # {}
          /\ k # bestState
    /\ \E k \in DOMAIN dist : Finalized(k) /\ dist[k] > dist[StartState] + 1

=============================================================================
